---------------------------- MODULE Spec2Model ----------------------------
(***************************************************************************)
(* Model of the CloudWatch query normalisation and classification code of  *)
(* pkg/cloudwatch/models/cloudwatch_query.go and of the framing pipeline   *)
(* of pkg/infinity/csvBackend.go.                                          *)
(*                                                                         *)
(* Go strings that the code inspects character by character (reference    *)
(* ids, identifiers, period specs, dimension keys) are sequences of        *)
(* one-character strings; strings that are only compared for equality are  *)
(* TLA+ strings.  A Go pointer or interface that may be nil is a sequence  *)
(* of length 0 (nil) or 1 (the value).  A Go map is a function; a range    *)
(* over a map visits its keys in an order the runtime picks, which the     *)
(* actions choose with \E among all permutations of the key set.           *)
(***************************************************************************)
EXTENDS Integers, Sequences, FiniteSets, TLC

VARIABLES
    req,    \* the call's inputs: decoded metricsDataQuery, refId, time range, flags
    pc,     \* "start" | "parsed" | "done"; in GetCSVBackendResponse the stage to run next
    cwq,    \* the *CloudWatchQuery in hand: <<>> (nil) or <<record>>
    err,    \* outcome of ParseMetricDataQueries
    out,    \* result of the method last called on cwq, or of GetCSVBackendResponse
    frame,  \* the local frame of GetCSVBackendResponse: <<>> (nil) or <<record>>
    calls   \* the pipeline stages GetCSVBackendResponse has called, in order

vars == <<req, pc, cwq, err, out, frame, calls>>

---------------------------------------------------------------------------
(* Bounds of the model *)

\* largest number of keys in a dimension map
MaxDimKeys == 2

\* largest number of values in one dimension's list
MaxDimValues == 2

\* how far around each period boundary the time range is sampled (seconds)
DeltaSlack == 1

\* largest number of rows of a parsed frame
MaxRows == 2

---------------------------------------------------------------------------
(* Strings *)

None == <<>>

Some(v) == <<v>>

Digits == <<"0", "1", "2", "3", "4", "5", "6", "7", "8", "9">>

UpperLetters ==
    <<"A", "B", "C", "D", "E", "F", "G", "H", "I", "J", "K", "L", "M",
      "N", "O", "P", "Q", "R", "S", "T", "U", "V", "W", "X", "Y", "Z">>

LowerLetters ==
    <<"a", "b", "c", "d", "e", "f", "g", "h", "i", "j", "k", "l", "m",
      "n", "o", "p", "q", "r", "s", "t", "u", "v", "w", "x", "y", "z">>

\* the characters of the model in byte order
AsciiOrder ==
    <<"*", "+", "-", ".">> \o Digits \o UpperLetters \o <<"_">> \o LowerLetters

Range(s) == {s[i] : i \in 1..Len(s)}

IndexIn(s, c) == CHOOSE i \in 1..Len(s) : s[i] = c

CharRank(c) == IndexIn(AsciiOrder, c)

IsDigit(c) == c \in Range(Digits)

DigitValue(c) == IndexIn(Digits, c) - 1

\* strings.ToLower on one character
ToLowerChar(c) ==
    IF c \in Range(UpperLetters) THEN LowerLetters[IndexIn(UpperLetters, c)] ELSE c

ToLower(s) == [i \in 1..Len(s) |-> ToLowerChar(s[i])]

\* byte-wise s < t, as sort.Strings compares
RECURSIVE StrLess(_, _)
StrLess(s, t) ==
    IF t = <<>> THEN FALSE
    ELSE IF s = <<>> THEN TRUE
    ELSE IF s[1] # t[1] THEN CharRank(s[1]) < CharRank(t[1])
    ELSE StrLess(Tail(s), Tail(t))

Min(a, b) == IF a < b THEN a ELSE b

\* all orders in which a range over a map with key set S may visit it
Perms(S) ==
    {p \in [1..Cardinality(S) -> S] : \A i, j \in 1..Cardinality(S) : i # j => p[i] # p[j]}

---------------------------------------------------------------------------
(* Enumerations *)

MetricEditorModeBuilder == 0
MetricEditorModeRaw == 1

MetricQueryTypeSearch == 0
MetricQueryTypeQuery == 1

GMDApiModeMetricStat == 0
GMDApiModeInferredSearchExpression == 1
GMDApiModeMathExpression == 2
GMDApiModeSQLExpression == 3

defaultRegion == "default"

timeSeriesQuery == "timeSeriesQuery"

---------------------------------------------------------------------------
(* Classification *)

HasWildcard(values) == \E i \in 1..Len(values) : values[i] = "*"

\* the range loop of IsInferredSearchExpression from position i of order ord
RECURSIVE InferredLoop(_, _, _)
InferredLoop(dims, ord, i) ==
    IF i > Len(ord) THEN FALSE
    ELSE IF Len(dims[ord[i]]) > 1 THEN TRUE
    ELSE IF HasWildcard(dims[ord[i]]) THEN TRUE
    ELSE InferredLoop(dims, ord, i + 1)

\* IsInferredSearchExpression without the test of the account identifier
IsInferredSearchExpression_SkipsAllAccounts(q, ord) ==
    IF q.MetricQueryType # MetricQueryTypeSearch \/ q.MetricEditorMode # MetricEditorModeBuilder
    THEN FALSE
    ELSE IF DOMAIN q.Dimensions = {} THEN ~q.MatchExact
    ELSE IF ~q.MatchExact THEN TRUE
    ELSE InferredLoop(q.Dimensions, ord, 1)

IsInferredSearchExpression(q, ord) ==
    IF q.MetricQueryType # MetricQueryTypeSearch \/ q.MetricEditorMode # MetricEditorModeBuilder
    THEN FALSE
    ELSE IF q.AccountId # None /\ q.AccountId[1] = "all" THEN TRUE
    ELSE IF DOMAIN q.Dimensions = {} THEN ~q.MatchExact
    ELSE IF ~q.MatchExact THEN TRUE
    ELSE InferredLoop(q.Dimensions, ord, 1)

\* the mode returned and whether the fallback warning was logged
GetGMDAPIMode(q, ord) ==
    IF q.MetricQueryType = MetricQueryTypeSearch /\ q.MetricEditorMode = MetricEditorModeBuilder
    THEN IF IsInferredSearchExpression(q, ord)
         THEN [mode |-> GMDApiModeInferredSearchExpression, warned |-> FALSE]
         ELSE [mode |-> GMDApiModeMetricStat, warned |-> FALSE]
    ELSE IF q.MetricQueryType = MetricQueryTypeSearch /\ q.MetricEditorMode = MetricEditorModeRaw
    THEN [mode |-> GMDApiModeMathExpression, warned |-> FALSE]
    ELSE IF q.MetricQueryType = MetricQueryTypeQuery
    THEN [mode |-> GMDApiModeSQLExpression, warned |-> FALSE]
    ELSE [mode |-> GMDApiModeMetricStat, warned |-> TRUE]

\* the range loop of IsMultiValuedDimensionExpression from position i of order ord
RECURSIVE MultiValuedLoop(_, _, _)
MultiValuedLoop(dims, ord, i) ==
    IF i > Len(ord) THEN FALSE
    ELSE IF HasWildcard(dims[ord[i]]) THEN FALSE
    ELSE IF Len(dims[ord[i]]) > 1 THEN TRUE
    ELSE MultiValuedLoop(dims, ord, i + 1)

IsMultiValuedDimensionExpression(q, ord) ==
    IF q.MetricQueryType # MetricQueryTypeSearch \/ q.MetricEditorMode # MetricEditorModeBuilder
    THEN FALSE
    ELSE MultiValuedLoop(q.Dimensions, ord, 1)

\* strings.Contains(q.Expression, "SEARCH("): expressions are token sequences
ContainsSearchCall(expr) == \E i \in 1..Len(expr) : expr[i] = "SEARCH("

IsUserDefinedSearchExpression(q) ==
    /\ q.MetricQueryType = MetricQueryTypeSearch
    /\ q.MetricEditorMode = MetricEditorModeRaw
    /\ ContainsSearchCall(q.Expression)

\* IsMathExpression taking every Raw search query, a SEARCH( call or not
IsMathExpression_AnyRaw(q) ==
    /\ q.MetricQueryType = MetricQueryTypeSearch
    /\ q.MetricEditorMode = MetricEditorModeRaw

IsMathExpression(q) ==
    /\ q.MetricQueryType = MetricQueryTypeSearch
    /\ q.MetricEditorMode = MetricEditorModeRaw
    /\ ~IsUserDefinedSearchExpression(q)

isSearchExpression(q, ord) ==
    /\ q.MetricQueryType = MetricQueryTypeSearch
    /\ (IsUserDefinedSearchExpression(q) \/ IsInferredSearchExpression(q, ord))

---------------------------------------------------------------------------
(* Period resolution *)

\* a time.Duration of n days, in seconds
Days(n) == n * 24 * 60 * 60

\* getRetainedPeriods with the tiers starting at, not after, 15, 63 and 455 days
getRetainedPeriods_InclusiveTiers(timeSince) ==
    IF timeSince >= Days(455) THEN <<21600, 86400>>
    ELSE IF timeSince >= Days(63) THEN <<3600, 21600, 86400>>
    ELSE IF timeSince >= Days(15) THEN <<300, 900, 3600, 21600, 86400>>
    ELSE <<60, 300, 900, 3600, 21600, 86400>>

getRetainedPeriods(timeSince) ==
    IF timeSince > Days(455) THEN <<21600, 86400>>
    ELSE IF timeSince > Days(63) THEN <<3600, 21600, 86400>>
    ELSE IF timeSince > Days(15) THEN <<300, 900, 3600, 21600, 86400>>
    ELSE <<60, 300, 900, 3600, 21600, 86400>>

\* int(math.Ceil(deltaInSeconds / 2000)) for a whole number of seconds
Datapoints(deltaInSeconds) == -((-deltaInSeconds) \div 2000)

\* the loop of getPeriod over the candidate periods, from position i
RECURSIVE PickPeriod(_, _, _)
PickPeriod(periods, datapoints, i) ==
    IF i > Len(periods) THEN periods[Len(periods)]
    ELSE IF datapoints <= periods[i] THEN periods[i]
    ELSE PickPeriod(periods, datapoints, i + 1)

\* number of leading decimal digits of s
RECURSIVE LeadingDigits(_)
LeadingDigits(s) ==
    IF s = <<>> \/ ~IsDigit(s[1]) THEN 0 ELSE 1 + LeadingDigits(Tail(s))

IsUnitChar(c) == c # "." /\ ~IsDigit(c)

\* number of leading characters of s that time.ParseDuration reads as a unit
RECURSIVE LeadingUnitChars(_)
LeadingUnitChars(s) ==
    IF s = <<>> \/ ~IsUnitChar(s[1]) THEN 0 ELSE 1 + LeadingUnitChars(Tail(s))

RECURSIVE DecimalValue(_, _)
DecimalValue(s, acc) ==
    IF s = <<>> THEN acc ELSE DecimalValue(Tail(s), acc * 10 + DigitValue(s[1]))

RECURSIVE Pow10(_)
Pow10(n) == IF n = 0 THEN 1 ELSE 10 * Pow10(n - 1)

\* integer division truncating toward zero, as Go's int() of a float does
TruncDiv(a, b) == IF a >= 0 THEN a \div b ELSE -((-a) \div b)

\* strconv.Atoi: an optional sign and one or more decimal digits
Atoi(s) ==
    LET signed == s # <<>> /\ s[1] \in {"+", "-"}
        body == IF signed THEN Tail(s) ELSE s
    IN  IF body # <<>> /\ LeadingDigits(body) = Len(body)
        THEN [ok |-> TRUE,
              v |-> IF signed /\ s[1] = "-" THEN -DecimalValue(body, 0)
                    ELSE DecimalValue(body, 0)]
        ELSE [ok |-> FALSE, v |-> 0]

\* the units of time.ParseDuration the model's inputs use, in milliseconds
\* (0: not a unit)
UnitMillis(u) ==
    CASE u = <<"m", "s">> -> 1
      [] u = <<"s">> -> 1000
      [] u = <<"m">> -> 60 * 1000
      [] u = <<"h">> -> 60 * 60 * 1000
      [] OTHER -> 0

\* the loop of time.ParseDuration over "<digits>[.<digits>]<unit>" groups;
\* acc is the duration so far in milliseconds
RECURSIVE DurationLoop(_, _)
DurationLoop(s, acc) ==
    IF s = <<>> THEN [ok |-> TRUE, v |-> acc]
    ELSE LET nInt == LeadingDigits(s)
             afterInt == SubSeq(s, nInt + 1, Len(s))
             hasDot == afterInt # <<>> /\ afterInt[1] = "."
             afterDot == IF hasDot THEN Tail(afterInt) ELSE afterInt
             nFrac == IF hasDot THEN LeadingDigits(afterDot) ELSE 0
             rest == SubSeq(afterDot, nFrac + 1, Len(afterDot))
             nUnit == LeadingUnitChars(rest)
             unit == UnitMillis(SubSeq(rest, 1, nUnit))
             whole == DecimalValue(SubSeq(s, 1, nInt), 0) * unit
             frac == (DecimalValue(SubSeq(afterDot, 1, nFrac), 0) * unit) \div Pow10(nFrac)
         IN  IF nInt = 0 /\ nFrac = 0 THEN [ok |-> FALSE, v |-> 0]
             ELSE IF nUnit = 0 \/ unit = 0 THEN [ok |-> FALSE, v |-> 0]
             ELSE DurationLoop(SubSeq(rest, nUnit + 1, Len(rest)), acc + whole + frac)

\* time.ParseDuration, the result in milliseconds
ParseDuration(s) ==
    LET signed == s # <<>> /\ s[1] \in {"+", "-"}
        body == IF signed THEN Tail(s) ELSE s
        d == DurationLoop(body, 0)
    IN  IF body = <<"0">> THEN [ok |-> TRUE, v |-> 0]
        ELSE IF body = <<>> \/ ~d.ok THEN [ok |-> FALSE, v |-> 0]
        ELSE [ok |-> TRUE, v |-> IF signed /\ s[1] = "-" THEN -d.v ELSE d.v]

Auto == <<"a", "u", "t", "o">>

\* the else branch of getPeriod: n is what strconv.Atoi returned, d what
\* time.ParseDuration would return
explicitPeriod(n, d) ==
    IF n.ok THEN [ok |-> TRUE, period |-> n.v]
    ELSE IF ~d.ok THEN [ok |-> FALSE, period |-> 0]
    ELSE [ok |-> TRUE, period |-> TruncDiv(d.v, 1000)]

\* query.Period, endTime - startTime and time.Since(startTime) in seconds
getPeriod(periodString, deltaInSeconds, timeSince) ==
    IF ToLower(periodString) = Auto \/ periodString = <<>>
    THEN [ok |-> TRUE,
          period |-> PickPeriod(getRetainedPeriods(timeSince), Datapoints(deltaInSeconds), 1)]
    ELSE explicitPeriod(Atoi(periodString), ParseDuration(periodString))

---------------------------------------------------------------------------
(* Dimension normalisation *)

\* An error message is a sequence of parts: fixed texts and, where the code
\* formats one in, dimension keys.
MsgText(t) == <<"text", t>>

MsgKey(k) == <<"key">> \o k

\* Values of map[string]interface{} as json.Unmarshal leaves them:
\* a string, a []interface{} of strings and numbers, or a number.
StringValue(x) == [tag |-> "string", s |-> x, elems |-> <<>>]

NumberValue == [tag |-> "number", s |-> "", elems |-> <<>>]

ListValue(es) == [tag |-> "list", s |-> "", elems |-> es]

EmptyMap == [k \in {} |-> <<>>]

\* m[k] = v
Put(m, k, v) == [x \in DOMAIN m \cup {k} |-> IF x = k THEN v ELSE m[x]]

\* sort.Strings(keys)
SortStrings(S) ==
    CHOOSE p \in Perms(S) : \A i \in 1..(Len(p) - 1) : StrLess(p[i], p[i + 1])

\* the second loop of sortDimensions: insert the keys in sorted order
RECURSIVE CopyInOrder(_, _, _, _)
CopyInOrder(dimensions, keys, i, sorted) ==
    IF i > Len(keys) THEN sorted
    ELSE CopyInOrder(dimensions, keys, i + 1, Put(sorted, keys[i], dimensions[keys[i]]))

\* The result is a Go map again: the order of insertion is not kept.
sortDimensions(dimensions) ==
    CopyInOrder(dimensions, SortStrings(DOMAIN dimensions), 1, EmptyMap)

AllStrings(es) == \A j \in 1..Len(es) : es[j].tag = "string"

\* the range loop of parseDimensions from position i of order ord;
\* value.(string) on a list element that is no string panics
RECURSIVE ParseDimensionsLoop(_, _, _, _)
ParseDimensionsLoop(dimensions, ord, i, parsed) ==
    IF i > Len(ord)
    THEN [kind |-> "ok", dims |-> sortDimensions(parsed), msg |-> <<>>]
    ELSE LET k == ord[i]
             v == dimensions[k]
         IN  IF v.tag = "string"
             THEN ParseDimensionsLoop(dimensions, ord, i + 1, Put(parsed, k, <<v.s>>))
             ELSE IF v.tag = "list"
             THEN IF ~AllStrings(v.elems)
                  THEN [kind |-> "panic", dims |-> EmptyMap,
                        msg |-> <<MsgText("interface conversion: interface {} is not string")>>]
                  ELSE IF v.elems = <<>>
                  THEN ParseDimensionsLoop(dimensions, ord, i + 1, parsed)
                  ELSE ParseDimensionsLoop(dimensions, ord, i + 1,
                           Put(parsed, k, [j \in 1..Len(v.elems) |-> v.elems[j].s]))
             ELSE [kind |-> "error", dims |-> EmptyMap,
                   msg |-> <<MsgText("unknown type as dimension value")>>]

\* parseDimensions keeping only the first value of each list
parseDimensions_KeepsFirstValueOnly(dimensions, ord) ==
    LET r == ParseDimensionsLoop(dimensions, ord, 1, EmptyMap)
    IN  [r EXCEPT !.dims = [k \in DOMAIN r.dims |-> <<r.dims[k][1]>>]]

parseDimensions(dimensions, ord) == ParseDimensionsLoop(dimensions, ord, 1, EmptyMap)

---------------------------------------------------------------------------
(* Identifier, statistic and label *)

IsIdChar(c) ==
    c \in Range(LowerLetters) \cup Range(UpperLetters) \cup Range(Digits) \cup {"_"}

\* regexp ^[a-z][a-zA-Z0-9_]*$
validMetricDataID(s) ==
    /\ s # <<>>
    /\ s[1] \in Range(LowerLetters)
    /\ \A i \in 1..Len(s) : IsIdChar(s[i])

Repeat(c, n) == [i \in 1..n |-> c]

\* uuid.NewString(): five groups of 8, 4, 4, 4 and 12 hexadecimal digits
\* joined by hyphens; h gives the digit that fills each group
UuidString(h) ==
    Repeat(h[1], 8) \o <<"-">> \o Repeat(h[2], 4) \o <<"-">> \o Repeat(h[3], 4)
        \o <<"-">> \o Repeat(h[4], 4) \o <<"-">> \o Repeat(h[5], 12)

\* the strings uuid.NewString() may return, in the model
Uuids == {UuidString(<<a, b, a, b, a>>) : a, b \in {"0", "f"}}

\* strings.ReplaceAll left out: the hyphens stay
RemoveAll_KeepsAll(s, old) == s

\* strings.ReplaceAll(s, old, "") for a one-character old
RemoveAll(s, old) == SelectSeq(s, LAMBDA c : c # old)

QueryPrefix == <<"q", "u", "e", "r", "y">>

\* the identifier validateAndSetDefaults sets when the query has none
GeneratedId(refId, newUUID) ==
    IF validMetricDataID(refId) THEN QueryPrefix \o refId
    ELSE QueryPrefix \o RemoveAll(newUUID, "-")

\* *query.Statistics[0] or *query.Statistic; indexing an empty list and
\* dereferencing a nil element panic
getStatistic(query) ==
    IF query.Statistic = None
    THEN IF query.Statistics = None \/ query.Statistics[1] = <<>>
         THEN [ok |-> FALSE, v |-> "", msg |-> <<MsgText("index out of range [0] with length 0")>>]
         ELSE IF query.Statistics[1][1] = None
         THEN [ok |-> FALSE, v |-> "", msg |-> <<MsgText("nil pointer dereference")>>]
         ELSE [ok |-> TRUE, v |-> query.Statistics[1][1][1], msg |-> <<>>]
    ELSE [ok |-> TRUE, v |-> query.Statistic[1], msg |-> <<>>]

\* An alias is a sequence of pieces, each a text outside the {{ }}
\* placeholders or one placeholder with its inner name.
Text(t) == [placeholder |-> FALSE, name |-> t]

Placeholder(n) == [placeholder |-> TRUE, name |-> n]

aliasPatterns ==
    [metric |-> "${PROP('MetricName')}", namespace |-> "${PROP('Namespace')}",
     period |-> "${PROP('Period')}", region |-> "${PROP('Region')}",
     stat |-> "${PROP('Stat')}", label |-> "${LABEL}"]

\* the replacement getLabel makes for one match of legacyAliasRegexp
DynamicLabel(piece) ==
    IF ~piece.placeholder THEN <<"text", piece.name>>
    ELSE IF piece.name \in DOMAIN aliasPatterns THEN <<"text", aliasPatterns[piece.name]>>
    ELSE <<"${PROP('Dim.", piece.name, "')}">>

getLabel(query, dynamicLabelsEnabled) ==
    IF query.Label # None THEN query.Label[1]
    ELSE IF query.Alias = <<>> THEN <<>>
    ELSE IF dynamicLabelsEnabled
    THEN [i \in 1..Len(query.Alias) |-> DynamicLabel(query.Alias[i])]
    ELSE <<>>

---------------------------------------------------------------------------
(* Normalisation *)

NoError == [kind |-> "none", type |-> "", refId |-> <<>>, msg |-> <<>>]

\* a Go error value returned to the caller
Error(type, refId, msg) == [kind |-> "error", type |-> type, refId |-> refId, msg |-> msg]

\* a run-time panic unwinding through the caller
Panic(msg) == [kind |-> "panic", type |-> "", refId |-> <<>>, msg |-> msg]

\* the CloudWatchQuery literal of ParseMetricDataQueries; the fields it
\* does not name hold Go's zero values
NewCloudWatchQuery(refId, m) ==
    [RefId |-> refId, Region |-> m.Region, Id |-> m.Id, Namespace |-> m.Namespace,
     MetricName |-> m.MetricName, Statistic |-> "", Expression |-> m.Expression,
     SqlExpression |-> m.SqlExpression, ReturnData |-> FALSE, Dimensions |-> EmptyMap,
     Period |-> 0, Alias |-> m.Alias, Label |-> <<>>, MatchExact |-> FALSE,
     UsedExpression |-> "", TimezoneUTCOffset |-> m.TimezoneUTCOffset,
     MetricQueryType |-> m.MetricQueryType, MetricEditorMode |-> MetricEditorModeBuilder,
     AccountId |-> None]

\* validateAndSetDefaults once the period p and the dimensions d are resolved
setDefaults(q, refId, m, defaultRegionValue, crossAccountQueryingEnabled, newUUID, p, d) ==
    IF m.Statistic = None /\ m.Statistics = None
    THEN [q |-> q, kind |-> "error",
          msg |-> <<MsgText("query must have either statistic or statistics field")>>]
    ELSE IF ~p.ok
    THEN [q |-> q, kind |-> "error", msg |-> <<MsgText("failed to parse period as duration: ")>>]
    ELSE IF d.kind = "panic"
    THEN [q |-> [q EXCEPT !.Period = p.period], kind |-> "panic", msg |-> d.msg]
    ELSE IF d.kind = "error"
    THEN [q |-> [q EXCEPT !.Period = p.period], kind |-> "error",
          msg |-> <<MsgText("failed to parse dimensions: ")>> \o d.msg]
    ELSE [kind |-> "ok", msg |-> <<>>,
          q |-> [q EXCEPT
              !.Period = p.period,
              !.Dimensions = d.dims,
              !.AccountId = IF crossAccountQueryingEnabled THEN m.AccountId ELSE None,
              !.Id = IF m.Id = <<>> THEN GeneratedId(refId, newUUID) ELSE q.Id,
              !.MatchExact = IF m.MatchExact # None THEN m.MatchExact[1] ELSE TRUE,
              !.ReturnData = IF m.QueryType = "" THEN TRUE
                             ELSE IF m.Hide # None THEN ~m.Hide[1]
                             ELSE TRUE,
              !.MetricEditorMode =
                  IF m.MetricEditorMode = None /\ Len(m.Expression) > 0
                  THEN MetricEditorModeRaw
                  ELSE IF m.MetricEditorMode # None THEN m.MetricEditorMode[1]
                  ELSE MetricEditorModeBuilder,
              !.Region = IF q.Region = defaultRegion THEN defaultRegionValue
                         ELSE q.Region]]

\* The receiver q after the call and the error returned.  ord is the order
\* in which parseDimensions ranges over the raw map, newUUID what
\* uuid.NewString() returns if called.
validateAndSetDefaults(q, refId, m, deltaInSeconds, timeSince, defaultRegionValue, crossAccountQueryingEnabled, ord, newUUID) ==
    setDefaults(q, refId, m, defaultRegionValue, crossAccountQueryingEnabled, newUUID,
                getPeriod(m.Period, deltaInSeconds, timeSince),
                parseDimensions(m.Dimensions, ord))

\* q.Statistic and q.Label as migrateLegacyQuery sets them; st is getStatistic(query)
migrateLegacyQuery(q, query, dynamicLabelsEnabled, st) ==
    [q EXCEPT !.Statistic = st.v, !.Label = getLabel(query, dynamicLabelsEnabled)]

\* ParseMetricDataQueries from line 271 on: v is what validateAndSetDefaults
\* returned, st what getStatistic will return
parseTimeSeriesQuery(r, m, v, st) ==
    IF v.kind = "panic" THEN [cwq |-> None, err |-> Panic(v.msg)]
    ELSE IF v.kind = "error" THEN [cwq |-> None, err |-> Error("QueryError", r.refId, v.msg)]
    ELSE IF ~st.ok THEN [cwq |-> None, err |-> Panic(st.msg)]
    ELSE [cwq |-> Some(migrateLegacyQuery(v.q, m, r.dynamicLabelsEnabled, st)),
          err |-> NoError]

\* ParseMetricDataQueries once the JSON is decoded into m and the region defaulted
parseDecoded(r, m, ord, newUUID) ==
    IF r.malformed
    THEN [cwq |-> None, err |-> Error("QueryError", r.refId, <<MsgText("json: cannot unmarshal")>>)]
    ELSE IF m.QueryType # timeSeriesQuery
    THEN [cwq |-> None, err |-> Error("error", <<>>, <<MsgText("its not a time series query")>>)]
    ELSE parseTimeSeriesQuery(r, m,
             validateAndSetDefaults(NewCloudWatchQuery(r.refId, m), r.refId, m,
                 r.deltaInSeconds, r.timeSince, r.defaultRegion,
                 r.crossAccountQueryingEnabled, ord, newUUID),
             getStatistic(m))

\* ParseMetricDataQueries without the defaulting of an empty region
ParseMetricDataQueries_KeepsEmptyRegion(r, ord, newUUID) ==
    parseDecoded(r, r.query, ord, newUUID)

\* r: the inputs of the call; the result is the pointer returned (<<>>: nil)
\* and the error
ParseMetricDataQueries(r, ord, newUUID) ==
    parseDecoded(r,
        [r.query EXCEPT !.Region = IF r.query.Region = "" THEN r.defaultRegion
                                   ELSE r.query.Region],
        ord, newUUID)

---------------------------------------------------------------------------
(* Deep link *)

\* the range loop of BuildDeepLink from position i of order ord: the key
\* and first value of each dimension; <<>> stands for the panic of
\* dimensionValues[0] on an empty list
RECURSIVE DimensionPairs(_, _, _)
DimensionPairs(dims, ord, i) ==
    IF i > Len(ord) THEN <<>>
    ELSE <<[key |-> ord[i], value |-> dims[ord[i]][1]]>> \o DimensionPairs(dims, ord, i + 1)

HasEmptyDimension(dims) == \E k \in DOMAIN dims : dims[k] = <<>>

\* the characters of the region names of the model
RegionChars(region) ==
    CASE region = "us-east-1" -> <<"u", "s", "-", "e", "a", "s", "t", "-", "1">>
      [] region = "eu-west-1" -> <<"e", "u", "-", "w", "e", "s", "t", "-", "1">>
      [] region = "us east 1" -> <<"u", "s", " ", "e", "a", "s", "t", " ", "1">>
      [] region = "default" -> <<"d", "e", "f", "a", "u", "l", "t">>
      [] region = "" -> <<>>

\* the characters net/url lets stand in a host name
HostChars ==
    Range(LowerLetters) \cup Range(UpperLetters) \cup Range(Digits)
        \cup {"-", "_", ".", "~", "!", "$", "&", "'", "(", ")", "*", "+", ",", ";", "=",
              "[", "]", "<", ">", "\""}

\* url.Parse of https://<region>.console.aws.amazon.com/cloudwatch/deeplink.js
\* returns no error; the characters that end the host or start a port or
\* an escape are not among the model's regions
urlParse(region) == \A i \in 1..Len(RegionChars(region)) : RegionChars(region)[i] \in HostChars

\* lines 184 to 201: the link built so far becomes the URL, or the error
\* of url.Parse
linkToUrl(region, built) ==
    IF built.kind = "ok" /\ built.link # None /\ ~urlParse(region)
    THEN [kind |-> "error", link |-> None]
    ELSE built

\* The link's Metrics is a one-element list.  For a metric stat its element
\* is the JSON array [Namespace, MetricName, key, value, ..., meta], kept
\* here as head, pairs and meta.  ord1 is the order of the range in
\* isSearchExpression, ord2 that of the range over q.Dimensions.
buildLink(q, window, dynamicLabelEnabled, ord1, ord2) ==
    IF IsMathExpression(q) \/ q.MetricQueryType = MetricQueryTypeQuery
    THEN [kind |-> "ok", link |-> None]
    ELSE IF isSearchExpression(q, ord1)
    THEN [kind |-> "ok",
          link |-> Some([Title |-> q.RefId, View |-> "timeSeries", Stacked |-> FALSE,
                         Region |-> q.Region, Start |-> window.start, End |-> window.end,
                         Metrics |-> [kind |-> "expression",
                                      Expression |-> q.UsedExpression,
                                      Label |-> IF dynamicLabelEnabled THEN q.Label ELSE <<>>]])]
    ELSE IF HasEmptyDimension(q.Dimensions)
    THEN [kind |-> "panic", link |-> None]
    ELSE [kind |-> "ok",
          link |-> Some([Title |-> q.RefId, View |-> "timeSeries", Stacked |-> FALSE,
                         Region |-> q.Region, Start |-> window.start, End |-> window.end,
                         Metrics |-> [kind |-> "metricStat",
                                      head |-> <<q.Namespace, q.MetricName>>,
                                      pairs |-> DimensionPairs(q.Dimensions, ord2, 1),
                                      meta |-> [Stat |-> q.Statistic, Period |-> q.Period,
                                                Label |-> IF dynamicLabelEnabled THEN q.Label
                                                          ELSE <<>>,
                                                AccountId |-> IF q.AccountId # None
                                                              THEN q.AccountId[1] ELSE ""]]])]

\* kind "ok" with the link (<<>>: the empty string), "error" for the error
\* returned, "panic"
BuildDeepLink(q, window, dynamicLabelEnabled, ord1, ord2) ==
    linkToUrl(q.Region, buildLink(q, window, dynamicLabelEnabled, ord1, ord2))

---------------------------------------------------------------------------
(* Framing pipeline *)

\* A *data.Frame is a record of its name, the types of its fields in order,
\* its number of rows and its Meta: <<>> (nil) or <<[Custom |-> CustomMeta]>>.
\* Text that the code trims (the summarize expression) is a sequence of
\* characters.  The stages are called with the outcome the collaborator
\* reaches on its input, which the actions choose.

QueryTypeTSV == "tsv"

TimeSeriesTypeNot == "not"
TimeSeriesTypeWide == "wide"
TimeSeriesTypeLong == "long"

Whitespace == {" ", "\t", "\n", "\r"}

RECURSIVE TrimLeft(_)
TrimLeft(s) == IF s # <<>> /\ s[1] \in Whitespace THEN TrimLeft(Tail(s)) ELSE s

RECURSIVE TrimRight(_)
TrimRight(s) ==
    IF s # <<>> /\ s[Len(s)] \in Whitespace THEN TrimRight(SubSeq(s, 1, Len(s) - 1)) ELSE s

\* strings.TrimSpace left out: blanks count as an expression
TrimSpace_KeepsAll(s) == s

\* strings.TrimSpace
TrimSpace(s) == TrimRight(TrimLeft(s))

\* the Custom value of a frame's Meta; no error is the empty text
CustomMeta(query, errorText) == [Query |-> query, Error |-> errorText]

\* frame.Meta = &data.FrameMeta{Custom: &CustomMeta{...}}
FrameMeta(custom) == Some([Custom |-> custom])

\* GetDummyFrame: a frame without fields, created for the query
GetDummyFrame(query) == [Name |-> query.RefID, Fields |-> <<>>, Rows |-> 0, Meta |-> None]

\* the loop over query.Columns
ColumnSelectors(query) ==
    [i \in 1..Len(query.Columns) |->
        [Selector |-> query.Columns[i].Selector, Alias |-> query.Columns[i].Text,
         Type |-> query.Columns[i].Type, TimeFormat |-> query.Columns[i].TimeStampFormat]]

NoHeaderSentinels == {"-", "none"}

\* csvOptions as it stands when CsvStringToFrame is called
CSVFramerOptions(query) ==
    [FrameName |-> query.RefID,
     Columns |-> ColumnSelectors(query),
     Comment |-> query.CSVOptions.Comment,
     Delimiter |-> IF query.Type = QueryTypeTSV THEN "\t" ELSE query.CSVOptions.Delimiter,
     SkipLinesWithError |-> query.CSVOptions.SkipLinesWithError,
     RelaxColumnCount |-> query.CSVOptions.RelaxColumnCount,
     NoHeaders |-> query.CSVOptions.Columns \in NoHeaderSentinels]

\* responseString as it stands when CsvStringToFrame is called: a sequence
\* of lines, the header override put in front
ResponseWithHeader(responseString, query) ==
    IF query.CSVOptions.Columns # "" /\ query.CSVOptions.Columns \notin NoHeaderSentinels
    THEN <<query.CSVOptions.Columns>> \o responseString
    ELSE responseString

\* what a stage returns: a frame pointer and an error
Returns(f, e) == [frame |-> f, err |-> e]

StageError(text) == Error("error", <<>>, <<MsgText(text)>>)

\* csvFramer.CsvStringToFrame: an error, no frame, or the frame parsed
CsvStringToFrame(responseString, csvOptions, outcome) ==
    IF ~outcome.ok THEN Returns(None, StageError("csv: wrong number of fields"))
    ELSE IF ~outcome.present THEN Returns(None, NoError)
    ELSE Returns(Some([Name |-> csvOptions.FrameName, Fields |-> outcome.fields,
                       Rows |-> outcome.rows, Meta |-> None]),
                 NoError)

\* GetFrameWithComputedColumns: one new column for each spec; on failure
\* nothing of the new columns is kept
GetFrameWithComputedColumns(f, columns, outcome) ==
    IF columns = <<>> THEN Returns(Some(f), NoError)
    ELSE IF ~outcome.ok THEN Returns(Some(f), StageError("computed column: invalid expression"))
    ELSE Returns(Some([f EXCEPT !.Fields = @ \o outcome.fields]), NoError)

\* ApplyFilter: the empty expression is a no-op; else rows are dropped, the
\* columns stay
ApplyFilter(f, filterExpression, outcome) ==
    IF filterExpression = <<>> THEN Returns(Some(f), NoError)
    ELSE IF ~outcome.ok THEN Returns(Some(f), StageError("filter: invalid expression"))
    ELSE Returns(Some([f EXCEPT !.Rows = Min(@, outcome.rows)]), NoError)

\* GetSummaryFrame: one row per group, or the error of the expression
GetSummaryFrame(f, expression, by, outcome) ==
    IF ~outcome.ok THEN Returns(Some(f), StageError("summarize: invalid expression"))
    ELSE Returns(Some([f EXCEPT !.Fields = outcome.fields, !.Rows = Min(@, outcome.rows)]),
                 NoError)

\* the positions of the fields of f that have one of the types
TypeIndices(f, types) == {i \in 1..Len(f.Fields) : f.Fields[i] \in types}

\* frame.TimeSeriesSchema().Type: long with a time field, a string field
\* and a field that is neither the first time field nor a string field,
\* wide with no string field
TimeSeriesSchema(f) ==
    LET timeIndices == TypeIndices(f, {"time"})
        factorIndices == TypeIndices(f, {"string"})
        timeIndex == CHOOSE i \in timeIndices : \A j \in timeIndices : i <= j
        valueIndices == (1..Len(f.Fields)) \ (factorIndices \cup {timeIndex})
    IN  IF timeIndices = {} THEN TimeSeriesTypeNot
        ELSE IF valueIndices = {} THEN TimeSeriesTypeNot
        ELSE IF factorIndices = {} THEN TimeSeriesTypeWide
        ELSE TimeSeriesTypeLong

\* data.LongToWide: the wide frame, or an error and no frame
LongToWide(f, outcome) ==
    IF ~outcome.ok THEN Returns(None, StageError("frame has duplicate timestamps"))
    ELSE Returns(Some([f EXCEPT !.Fields = outcome.fields, !.Rows = Min(@, outcome.rows)]),
                 NoError)

\* frame.Meta.Custom = &CustomMeta{Query: query, Error: err.Error()}
WithError(f, query, e) == [f EXCEPT !.Meta = FrameMeta(CustomMeta(query, e.msg))]

\* fmt.Errorf("error applying filter. %w", err)
WrapFilterError(e) == Error("error", <<>>, <<MsgText("error applying filter. ")>> \o e.msg)

\* lines 74 to 79 with the error of LongToWide kept, not shadowed
reshapeOrKeep_ReturnsReshapeError(f, e, wide) ==
    IF wide.err = NoError THEN Returns(wide.frame, wide.err) ELSE Returns(Some(f), wide.err)

\* lines 74 to 79 once LongToWide has returned wide: its err is local to the
\* if statement, e is the error of the filter stage
reshapeOrKeep(f, e, wide) ==
    IF wide.err = NoError THEN Returns(wide.frame, wide.err) ELSE Returns(Some(f), e)

---------------------------------------------------------------------------
(* Inputs *)

BaseQuery ==
    [Dimensions |-> EmptyMap, Expression |-> <<>>, Label |-> None, Id |-> <<>>,
     MatchExact |-> None, MetricEditorMode |-> None, MetricName |-> "CPUUtilization",
     MetricQueryType |-> MetricQueryTypeSearch, Namespace |-> "AWS/EC2", Period |-> <<>>,
     Region |-> "us-east-1", SqlExpression |-> "", Statistic |-> Some("Average"),
     Statistics |-> None, TimezoneUTCOffset |-> "", QueryType |-> timeSeriesQuery,
     Hide |-> None, Alias |-> <<>>, AccountId |-> None]

BaseRequest ==
    [query |-> BaseQuery, refId |-> <<"A">>, malformed |-> FALSE,
     deltaInSeconds |-> 4000, timeSince |-> 3600, defaultRegion |-> "eu-west-1",
     dynamicLabelsEnabled |-> TRUE, crossAccountQueryingEnabled |-> FALSE]

Optional(S) == {None} \cup {Some(x) : x \in S}

\* sequences over S of length at most n
SeqUpTo(S, n) == UNION {[1..k -> S] : k \in 0..n}

AllKeys == << <<"b">>, <<"a", "b">>, <<"B">>, <<"a">> >>

DimKeys == {AllKeys[i] : i \in 1..Min(MaxDimKeys, Len(AllKeys))}

\* maps from some of the keys to values in V
Maps(V) == UNION {[D -> V] : D \in SUBSET DimKeys}

\* period specs: empty, auto, integers, durations, and strings that are neither
PeriodSpecs ==
    {<<>>, <<"a", "u", "t", "o">>, <<"A", "U", "T", "O">>, <<"A", "u", "t", "o">>,
     <<"6", "0">>, <<"0">>, <<"-", "6", "0">>, <<"+", "5">>, <<"0", "0", "7">>,
     <<"5", "m">>, <<"1", "h">>, <<"0", "s">>, <<"5", "0", "0", "m", "s">>,
     <<"1", ".", "5", "h">>, <<"1", "h", "3", "0", "m">>, <<"-", "1", "m">>,
     <<"-", "1", "5", "0", "0", "m", "s">>,
     <<"a", "b", "c">>, <<"1", ".", "5">>, <<"m", "5">>, <<"5", "x">>, <<"-">>}

AllCandidates == {60, 300, 900, 3600, 21600, 86400}

\* endTime - startTime in seconds: around every point where the number of
\* datapoints passes a candidate period, and around zero
Deltas ==
    {c * 2000 + d : c \in AllCandidates \cup {0, 2}, d \in (-DeltaSlack)..DeltaSlack}

\* time.Since(startTime) in seconds: around every retention tier
Ages == {Days(n) + d : n \in {0, 15, 63, 455}, d \in (-DeltaSlack)..DeltaSlack}

RefIds ==
    {<<>>, <<"A">>, <<"a">>, <<"A", "1">>, <<"a", "1">>, <<"m", "y", "R", "e", "f">>,
     <<"a", "-", "b">>, <<"a", "_", "B", "9">>, <<"1", "a">>, <<"_", "a">>}

PeriodRequests ==
    {[BaseRequest EXCEPT !.query.Period = p, !.deltaInSeconds = d, !.timeSince = a] :
        p \in PeriodSpecs, d \in Deltas, a \in Ages}

RawElements == {StringValue("x"), StringValue("*"), NumberValue}

RawDimensionValues ==
    {StringValue("x"), StringValue("*"), NumberValue}
        \cup {ListValue(es) : es \in SeqUpTo(RawElements, MaxDimValues)}

DimensionRequests ==
    {[BaseRequest EXCEPT !.query.Dimensions = dims, !.query.MatchExact = me] :
        dims \in Maps(RawDimensionValues), me \in {None, Some(FALSE)}}

StatisticsLists ==
    {None, Some(<<>>), Some(<<None>>), Some(<<Some("Sum")>>),
     Some(<<Some("Maximum"), Some("Sum")>>)}

DefaultsRequests ==
    {[BaseRequest EXCEPT !.query.QueryType = qt, !.query.Hide = h,
                         !.query.Statistic = st, !.query.Statistics = sts,
                         !.query.Region = rg, !.defaultRegion = dr, !.malformed = bad] :
        qt \in {timeSeriesQuery, "", "annotationQuery"}, h \in Optional(BOOLEAN),
        st \in Optional({"Average"}), sts \in StatisticsLists,
        rg \in {"", defaultRegion, "us-east-1"}, dr \in {"eu-west-1", "", defaultRegion},
        bad \in BOOLEAN}

IdentityRequests ==
    {[BaseRequest EXCEPT !.refId = ref, !.query.Id = id, !.query.QueryType = qt,
                         !.query.MetricEditorMode = em, !.query.Expression = ex,
                         !.query.AccountId = acc, !.crossAccountQueryingEnabled = cross,
                         !.query.Alias = al, !.dynamicLabelsEnabled = dyn] :
        ref \in RefIds, id \in {<<>>, <<"m", "1">>}, qt \in {timeSeriesQuery, ""},
        em \in Optional({MetricEditorModeBuilder, MetricEditorModeRaw}),
        ex \in {<<>>, <<"a", "+", "b">>}, acc \in Optional({"all"}), cross \in BOOLEAN,
        al \in {<<>>, <<Text("cpu "), Placeholder("metric"), Placeholder("InstanceId")>>},
        dyn \in BOOLEAN}

\* requests whose queries differ in what BuildDeepLink reads
DeepLinkRequests ==
    {[BaseRequest EXCEPT !.refId = <<"a">>, !.query.MetricQueryType = qt,
                         !.query.MetricEditorMode = em, !.query.Expression = ex,
                         !.query.Dimensions = dims, !.query.MatchExact = me,
                         !.query.AccountId = acc, !.crossAccountQueryingEnabled = acc # None,
                         !.query.Region = rg, !.query.Alias = <<Text("cpu")>>] :
        qt \in {MetricQueryTypeSearch, MetricQueryTypeQuery, 2},
        em \in Optional({MetricEditorModeBuilder, MetricEditorModeRaw}),
        ex \in {<<>>, <<"a", "+", "b">>, <<"SEARCH(", "x", ")">>},
        dims \in Maps({StringValue("x"), ListValue(<<StringValue("y"), StringValue("x")>>),
                       ListValue(<<StringValue("*")>>)}),
        me \in {None, Some(FALSE)}, acc \in Optional({"all", "123456789012"}),
        rg \in {"us-east-1", "us east 1"}}

\* queries built directly, as callers and tests of the methods build them
DirectQueries ==
    {[NewCloudWatchQuery(<<"A">>, BaseQuery) EXCEPT
          !.MetricQueryType = qt, !.MetricEditorMode = em, !.Dimensions = dims,
          !.MatchExact = me, !.AccountId = acc, !.Expression = ex,
          !.Statistic = "Average", !.Period = 300] :
        qt \in {MetricQueryTypeSearch, MetricQueryTypeQuery, 2},
        em \in {MetricEditorModeBuilder, MetricEditorModeRaw, 2},
        dims \in Maps(SeqUpTo({"x", "*"}, MaxDimValues)),
        me \in BOOLEAN, acc \in Optional({"all", "123456789012"}),
        ex \in {<<"SEARCH(", "x", ")">>}}

BaseCsvQuery ==
    [RefID |-> "A", Type |-> "csv", Format |-> "table",
     Columns |-> <<[Selector |-> "t", Text |-> "time", Type |-> "timestamp",
                    TimeStampFormat |-> "2006-01-02"],
                   [Selector |-> "v", Text |-> "", Type |-> "number", TimeStampFormat |-> ""]>>,
     CSVOptions |-> [Columns |-> "", Comment |-> "#", Delimiter |-> ",",
                     SkipLinesWithError |-> FALSE, RelaxColumnCount |-> FALSE],
     ComputedColumns |-> <<>>, FilterExpression |-> <<>>,
     SummarizeExpression |-> <<>>, SummarizeBy |-> ""]

\* summarize expressions: none, blanks only, and two that say something
SummarizeExpressions ==
    {<<>>, <<" ">>, <<"\t", " ", "\n">>, <<"s", "u", "m", "(", "v", ")">>,
     <<" ", "s", "u", "m", "(", "v", ")", " ">>}

CsvQueries ==
    {[BaseCsvQuery EXCEPT !.Type = ty, !.Format = fmt, !.CSVOptions.Columns = hdr,
                          !.ComputedColumns = cc, !.FilterExpression = fe,
                          !.SummarizeExpression = se] :
        ty \in {"csv", QueryTypeTSV}, fmt \in {"table", "timeseries"},
        hdr \in {"", "none", "t,k,v"},
        cc \in {<<>>, <<[Selector |-> "v * 2", Text |-> "double"]>>},
        fe \in {<<>>, <<"v", ">", "1">>},
        se \in SummarizeExpressions}

CsvRequests == {[responseString |-> <<"t,k,v", "2024-01-01,a,1">>, query |-> q] : q \in CsvQueries}

\* what a collaborator reaches on its input: failure, or success with no
\* frame (present false) or with the fields and rows of its frame
Outcome(ok, present, fields, rows) ==
    [ok |-> ok, present |-> present, fields |-> fields, rows |-> rows]

Failure == Outcome(FALSE, FALSE, <<>>, 0)

\* field types in order: no field, wide, long, no time, no value
FieldLists ==
    {<<>>, <<"time", "number">>, <<"time", "string", "number">>, <<"string", "number">>,
     <<"time", "string">>}

ParseOutcomes ==
    {Failure, Outcome(TRUE, FALSE, <<>>, 0)}
        \cup {Outcome(TRUE, TRUE, f, n) : f \in FieldLists, n \in 0..MaxRows}

ColumnOutcomes == {Failure} \cup {Outcome(TRUE, TRUE, <<t>>, 0) : t \in {"number", "string"}}

FilterOutcomes == {Failure} \cup {Outcome(TRUE, TRUE, <<>>, n) : n \in 0..MaxRows}

SummaryOutcomes == {Failure, Outcome(TRUE, TRUE, <<"number">>, 1)}

WideOutcomes == {Failure} \cup {Outcome(TRUE, TRUE, <<"time", "number">>, n) : n \in 1..MaxRows}

---------------------------------------------------------------------------
(* Actions *)

NoResult == [op |-> "none", result |-> <<>>]

\* the time window handed to BuildDeepLink, in seconds relative to now
Window == [start |-> -req.timeSince, end |-> req.deltaInSeconds - req.timeSince]

CallParseMetricDataQueries ==
    /\ pc = "start"
    /\ \E ord \in Perms(DOMAIN req.query.Dimensions), newUUID \in Uuids :
          \E r \in {ParseMetricDataQueries(req, ord, newUUID)} :
              cwq' = r.cwq /\ err' = r.err
    /\ pc' = "parsed"
    /\ UNCHANGED <<req, out, frame, calls>>

CallGetGMDAPIMode ==
    /\ pc = "parsed"
    /\ cwq # None
    /\ \E ord \in Perms(DOMAIN cwq[1].Dimensions) :
          out' = [op |-> "GetGMDAPIMode", result |-> GetGMDAPIMode(cwq[1], ord)]
    /\ pc' = "done"
    /\ UNCHANGED <<req, cwq, err, frame, calls>>

CallIsMultiValuedDimensionExpression ==
    /\ pc = "parsed"
    /\ cwq # None
    /\ \E ord \in Perms(DOMAIN cwq[1].Dimensions) :
          out' = [op |-> "IsMultiValuedDimensionExpression",
                  result |-> IsMultiValuedDimensionExpression(cwq[1], ord)]
    /\ pc' = "done"
    /\ UNCHANGED <<req, cwq, err, frame, calls>>

CallBuildDeepLink ==
    /\ pc = "parsed"
    /\ cwq # None
    /\ \E ord1, ord2 \in Perms(DOMAIN cwq[1].Dimensions), dyn \in BOOLEAN :
          out' = [op |-> "BuildDeepLink", dynamicLabelEnabled |-> dyn,
                  result |-> BuildDeepLink(cwq[1], Window, dyn, ord1, ord2)]
    /\ pc' = "done"
    /\ UNCHANGED <<req, cwq, err, frame, calls>>

InitRequest(requests) ==
    /\ req \in requests
    /\ pc = "start"
    /\ cwq = None
    /\ err = NoError
    /\ out = NoResult
    /\ frame = None
    /\ calls = <<>>

InitPeriod == InitRequest(PeriodRequests)

InitDimensions == InitRequest(DimensionRequests)

InitNormalize == InitRequest(DefaultsRequests \cup IdentityRequests)

InitDeepLink == InitRequest(DeepLinkRequests)

InitClassify ==
    /\ req = BaseRequest
    /\ pc = "parsed"
    /\ cwq \in {Some(q) : q \in DirectQueries}
    /\ err = NoError
    /\ out = NoResult
    /\ frame = None
    /\ calls = <<>>

Next ==
    \/ CallParseMetricDataQueries
    \/ CallGetGMDAPIMode
    \/ CallIsMultiValuedDimensionExpression
    \/ CallBuildDeepLink

NextClassify ==
    \/ CallGetGMDAPIMode
    \/ CallIsMultiValuedDimensionExpression
    \/ CallBuildDeepLink

SpecPeriod == InitPeriod /\ [][Next]_vars

SpecDimensions == InitDimensions /\ [][Next]_vars

SpecNormalize == InitNormalize /\ [][Next]_vars

SpecDeepLink == InitDeepLink /\ [][Next]_vars

SpecClassify == InitClassify /\ [][NextClassify]_vars

Init == InitPeriod \/ InitDimensions \/ InitNormalize

Spec == Init /\ [][Next]_vars

---------------------------------------------------------------------------
(* Steps of GetCSVBackendResponse *)

\* the frame of lines 15 and 43 to 47: the dummy frame with the query in its Meta
startFrame(query) ==
    [GetDummyFrame(query) EXCEPT !.Meta = FrameMeta(CustomMeta(query, <<>>))]

\* the frame after line 57: the fields of newFrame, if there is one, appended
withFields(f, newFrame) ==
    IF newFrame = None THEN f
    ELSE [f EXCEPT !.Fields = @ \o newFrame[1].Fields, !.Rows = newFrame[1].Rows]

\* The locals frame and err after a stage returned r, and whether the
\* function returns there: lines 48 to 58, 59 to 64 and 65 to 70.
parseStep(query, r) ==
    IF r.err # NoError
    THEN [frame |-> Some(WithError(startFrame(query), query, r.err)), err |-> r.err,
          returns |-> TRUE]
    ELSE [frame |-> Some(withFields(startFrame(query), r.frame)), err |-> r.err,
          returns |-> FALSE]

computedColumnsStep(query, r) ==
    IF r.err # NoError
    THEN [frame |-> Some(WithError(r.frame[1], query, r.err)), err |-> r.err, returns |-> TRUE]
    ELSE [frame |-> r.frame, err |-> r.err, returns |-> FALSE]

filterStep(query, r) ==
    IF r.err # NoError
    THEN [frame |-> Some(WithError(r.frame[1], query, r.err)), err |-> WrapFilterError(r.err),
          returns |-> TRUE]
    ELSE [frame |-> r.frame, err |-> r.err, returns |-> FALSE]

\* one entry of calls: the stage called and the error it returned
Call(stage, r) == [stage |-> stage, ok |-> r.err = NoError, msg |-> r.err.msg]

Result(f) == [op |-> "GetCSVBackendResponse", result |-> f]

\* a stage returned r and left the locals as n says; the function returns
\* or goes on at next
Proceed(stage, r, n, next) ==
    /\ calls' = Append(calls, Call(stage, r))
    /\ frame' = n.frame
    /\ err' = n.err
    /\ out' = IF n.returns THEN Result(n.frame) ELSE out
    /\ pc' = IF n.returns THEN "csv_done" ELSE next
    /\ UNCHANGED <<req, cwq>>

\* a stage returned r and the function returns the frame f and the error e
Return(stage, r, f, e) ==
    /\ calls' = Append(calls, Call(stage, r))
    /\ out' = Result(f)
    /\ err' = e
    /\ pc' = "csv_done"
    /\ UNCHANGED <<req, cwq, frame>>

CsvParse ==
    /\ pc = "csv_parse"
    /\ \E outcome \in ParseOutcomes :
          \E r \in {CsvStringToFrame(ResponseWithHeader(req.responseString, req.query),
                                     CSVFramerOptions(req.query), outcome)} :
              Proceed("parse", r, parseStep(req.query, r), "csv_computed")

CsvComputedColumns ==
    /\ pc = "csv_computed"
    /\ \E outcome \in ColumnOutcomes :
          \E r \in {GetFrameWithComputedColumns(frame[1], req.query.ComputedColumns, outcome)} :
              Proceed("computed", r, computedColumnsStep(req.query, r), "csv_filter")

CsvFilter ==
    /\ pc = "csv_filter"
    /\ \E outcome \in FilterOutcomes :
          \E r \in {ApplyFilter(frame[1], req.query.FilterExpression, outcome)} :
              Proceed("filter", r, filterStep(req.query, r), "csv_tail")

CsvSummarize ==
    /\ pc = "csv_tail"
    /\ TrimSpace(req.query.SummarizeExpression) # <<>>
    /\ \E outcome \in SummaryOutcomes :
          \E r \in {GetSummaryFrame(frame[1], req.query.SummarizeExpression,
                                    req.query.SummarizeBy, outcome)} :
              Return("summarize", r, r.frame, r.err)

CsvReshape ==
    /\ pc = "csv_tail"
    /\ TrimSpace(req.query.SummarizeExpression) = <<>>
    /\ req.query.Format = "timeseries"
    /\ TimeSeriesSchema(frame[1]) = TimeSeriesTypeLong
    /\ \E outcome \in WideOutcomes :
          \E wide \in {LongToWide(frame[1], outcome)} :
              \E r \in {reshapeOrKeep(frame[1], err, wide)} :
                  Return("reshape", wide, r.frame, r.err)

CsvReturn ==
    /\ pc = "csv_tail"
    /\ TrimSpace(req.query.SummarizeExpression) = <<>>
    /\ ~(req.query.Format = "timeseries" /\ TimeSeriesSchema(frame[1]) = TimeSeriesTypeLong)
    /\ out' = Result(frame)
    /\ pc' = "csv_done"
    /\ UNCHANGED <<req, cwq, err, frame, calls>>

InitCsv ==
    /\ req \in CsvRequests
    /\ pc = "csv_parse"
    /\ cwq = None
    /\ err = NoError
    /\ out = NoResult
    /\ frame = None
    /\ calls = <<>>

NextCsv ==
    \/ CsvParse
    \/ CsvComputedColumns
    \/ CsvFilter
    \/ CsvSummarize
    \/ CsvReshape
    \/ CsvReturn

SpecCsv == InitCsv /\ [][NextCsv]_vars

---------------------------------------------------------------------------
(* Properties *)

\* the query the last call was made on
TheQuery == cwq[1]

\* some dimension of q has more than one value
SomeMultiple(q) == \E k \in DOMAIN q.Dimensions : Len(q.Dimensions[k]) > 1

\* some dimension of q contains the wildcard value
SomeWildcard(q) == \E k \in DOMAIN q.Dimensions : "*" \in Range(q.Dimensions[k])

IsBuilderSearch(q) ==
    q.MetricQueryType = MetricQueryTypeSearch /\ q.MetricEditorMode = MetricEditorModeBuilder

\* the decision table of the classifier, read off the dimension map as a whole
TableInferred(q) ==
    \/ q.AccountId = Some("all")
    \/ IF DOMAIN q.Dimensions = {} THEN ~q.MatchExact
       ELSE \/ ~q.MatchExact
            \/ SomeMultiple(q)
            \/ SomeWildcard(q)

TableMode(q) ==
    CASE IsBuilderSearch(q) /\ TableInferred(q) -> GMDApiModeInferredSearchExpression
      [] IsBuilderSearch(q) /\ ~TableInferred(q) -> GMDApiModeMetricStat
      [] q.MetricQueryType = MetricQueryTypeSearch /\ q.MetricEditorMode = MetricEditorModeRaw
             -> GMDApiModeMathExpression
      [] q.MetricQueryType = MetricQueryTypeQuery -> GMDApiModeSQLExpression
      [] OTHER -> GMDApiModeMetricStat

\* C1: for every query, whatever order the dimension map is visited in,
\* GetGMDAPIMode returns the mode of the ordered decision table:
\* Search+Builder gives InferredSearchExpression if the query is an inferred
\* search expression (accountId "all"; else no dimensions and not
\* match-exact; else not match-exact; else some dimension with several
\* values or a wildcard) and MetricStat otherwise, Search+Raw gives
\* MathExpression, Query gives SQLExpression, anything else MetricStat.
C1_ModeFollowsDecisionTable ==
    out.op = "GetGMDAPIMode" => out.result.mode = TableMode(TheQuery)

\* C1 witness: a match-exact Builder search over single, non-wildcard
\* dimension values is classified as an inferred search expression because
\* its account is "all".
C1_AllAccountsInferred ==
    /\ out.op = "GetGMDAPIMode"
    /\ IsBuilderSearch(TheQuery)
    /\ TheQuery.AccountId = Some("all")
    /\ TheQuery.MatchExact
    /\ DOMAIN TheQuery.Dimensions # {}
    /\ ~SomeMultiple(TheQuery)
    /\ ~SomeWildcard(TheQuery)
    /\ out.result.mode = GMDApiModeInferredSearchExpression

\* C2: IsMultiValuedDimensionExpression returns true exactly when the query
\* is a Builder-mode Search query, no dimension of any key contains the
\* wildcard "*", and at least one dimension has more than one value,
\* whatever order the dimension map is visited in.
C2_MultiValuedIffNoWildcardAnywhere ==
    out.op = "IsMultiValuedDimensionExpression" =>
        (out.result <=> /\ IsBuilderSearch(TheQuery)
                        /\ ~SomeWildcard(TheQuery)
                        /\ SomeMultiple(TheQuery))

\* ParseMetricDataQueries has returned
Returned == pc # "start"

\* the call returned a query and no error
Resolved == Returned /\ cwq # None

\* nothing but the fields a property is about can make the call fail:
\* the JSON decodes, and a statistic is there to resolve
PlainRequest == ~req.malformed /\ req.query.Statistic # None

\* C3: when the query description carries no queryType marker,
\* normalization yields a resolved query whose ReturnData is true even if
\* hide is explicitly true; when the marker is present, ReturnData is true
\* unless hide is explicitly true.
C3_ReturnDataUnlessHiddenWithMarker ==
    (Returned /\ PlainRequest) =>
        /\ req.query.QueryType = "" => (Resolved /\ TheQuery.ReturnData)
        /\ (req.query.QueryType # "" /\ Resolved) =>
               (TheQuery.ReturnData <=> req.query.Hide # Some(TRUE))

\* C4: every query returned successfully by normalization has a period
\* strictly greater than 0 seconds, whatever the period spec and time range.
C4_PeriodPositive == Resolved => TheQuery.Period > 0

\* C5: when the singular statistic or the legacy plural list is present,
\* normalization resolves the statistic to the singular value if present
\* and otherwise to the first element of the plural list; when neither is
\* present it fails with a validation error and returns no query.
C5_StatisticResolvedOrRejected ==
    (Returned /\ ~req.malformed /\ req.query.QueryType = timeSeriesQuery) =>
        /\ req.query.Statistic # None =>
               (Resolved /\ TheQuery.Statistic = req.query.Statistic[1])
        /\ (req.query.Statistic = None /\ req.query.Statistics # None) =>
               /\ Resolved
               /\ req.query.Statistics[1] # <<>>
               /\ Some(TheQuery.Statistic) = req.query.Statistics[1][1]
        /\ (req.query.Statistic = None /\ req.query.Statistics = None) =>
               /\ cwq = None
               /\ err.kind = "error"
               /\ err.msg = <<MsgText("query must have either statistic or statistics field")>>

RawDimensions == req.query.Dimensions

\* a raw dimension value of a shape the normalizer accepts
WellTyped(v) == v.tag = "string" \/ (v.tag = "list" /\ AllStrings(v.elems))

BadKeys == {k \in DOMAIN RawDimensions : ~WellTyped(RawDimensions[k])}

\* a single string promoted to a one-element list, a list kept as it is
Promoted(v) == IF v.tag = "string" THEN <<v.s>> ELSE [j \in 1..Len(v.elems) |-> v.elems[j].s]

\* C6: for every raw dimension map in which some value is neither a single
\* string nor a list of strings only, dimension normalization returns an
\* error and no map; the error names the offending key and reaches the
\* caller wrapped with the context "failed to parse dimensions".
C6_BadDimensionRejectedNamingKey ==
    (Returned /\ BadKeys # {}) =>
        /\ cwq = None
        /\ err.kind = "error"
        /\ err.msg # <<>>
        /\ err.msg[1] = MsgText("failed to parse dimensions: ")
        /\ \E k \in BadKeys : \E i \in 1..Len(err.msg) : err.msg[i] = MsgKey(k)

\* C7 as stated: for every raw dimension map whose values are single
\* strings or lists of strings, the map returned has exactly the input's
\* keys, a single string promoted to a one-element list and a list kept
\* with the same values in the same order.
C7_AllKeysKept ==
    (Returned /\ BadKeys = {}) =>
        /\ Resolved
        /\ DOMAIN TheQuery.Dimensions = DOMAIN RawDimensions
        /\ \A k \in DOMAIN RawDimensions : TheQuery.Dimensions[k] = Promoted(RawDimensions[k])

\* C7 amended: for every raw dimension map whose values are single strings
\* or lists of strings, the map returned has exactly the input's keys whose
\* value is a single string or a non-empty list (a key with an empty list
\* is left out), a single string promoted to a one-element list and a list
\* kept with the same values in the same order.
C7_KeysWithValuesKept ==
    (Returned /\ BadKeys = {}) =>
        /\ Resolved
        /\ DOMAIN TheQuery.Dimensions =
               {k \in DOMAIN RawDimensions : RawDimensions[k] # ListValue(<<>>)}
        /\ \A k \in DOMAIN TheQuery.Dimensions :
               TheQuery.Dimensions[k] = Promoted(RawDimensions[k])

\* C7 witness: a map with a single string under one key, a two-element list
\* under another, normalized to a one-element list and the same two values
\* in the same order.
C7_StringAndListNormalized ==
    /\ Resolved
    /\ \E k1, k2 \in DOMAIN RawDimensions :
          /\ RawDimensions[k1] = StringValue("x")
          /\ RawDimensions[k2] = ListValue(<<StringValue("*"), StringValue("x")>>)
          /\ TheQuery.Dimensions[k1] = <<"x">>
          /\ TheQuery.Dimensions[k2] = <<"*", "x">>

\* C8: the dimension keys of a normalized query are consumed in
\* lexicographically sorted order: the key / first-value pairs BuildDeepLink
\* appends for a metric-stat query come in ascending order of key, so any
\* two traversals give the same sequence.
C8_DeepLinkKeysSorted ==
    (/\ out.op = "BuildDeepLink"
     /\ out.result.link # None
     /\ out.result.link[1].Metrics.kind = "metricStat") =>
        \A i \in 1..(Len(out.result.link[1].Metrics.pairs) - 1) :
            StrLess(out.result.link[1].Metrics.pairs[i].key,
                    out.result.link[1].Metrics.pairs[i + 1].key)

\* the reference ids of the model that match ^[a-z][a-zA-Z0-9_]*$
MatchingRefIds ==
    {<<"a">>, <<"a", "1">>, <<"m", "y", "R", "e", "f">>, <<"a", "_", "B", "9">>}

\* C9: when the query description has no explicit id, the resolved
\* identifier is "query" followed by the reference id if that matches
\* ^[a-z][a-zA-Z0-9_]*$, and otherwise "query" followed by a generated suffix
\* that is non-empty and contains no hyphen; an explicit id is kept
\* unchanged.
C9_IdentifierResolved ==
    Resolved =>
        IF req.query.Id # <<>> THEN TheQuery.Id = req.query.Id
        ELSE IF req.refId \in MatchingRefIds THEN TheQuery.Id = QueryPrefix \o req.refId
        ELSE /\ Len(TheQuery.Id) > Len(QueryPrefix)
             /\ SubSeq(TheQuery.Id, 1, Len(QueryPrefix)) = QueryPrefix
             /\ "-" \notin Range(TheQuery.Id)

\* C9 witness: reference id "A1" and no explicit id resolve to "query" and
\* the 32 digits of a generated suffix.
C9_GeneratedSuffix ==
    /\ Resolved
    /\ req.query.Id = <<>>
    /\ req.refId = <<"A", "1">>
    /\ Len(TheQuery.Id) = Len(QueryPrefix) + 32
    /\ TheQuery.Id # QueryPrefix \o req.refId

AutoSpecs == {<<>>, <<"a", "u", "t", "o">>, <<"A", "U", "T", "O">>, <<"A", "u", "t", "o">>}

\* the candidate periods for a start that lies age seconds back
TierCandidates(age) ==
    CASE age > 455 * 86400 -> {21600, 86400}
      [] age <= 455 * 86400 /\ age > 63 * 86400 -> {3600, 21600, 86400}
      [] age <= 63 * 86400 /\ age > 15 * 86400 -> {300, 900, 3600, 21600, 86400}
      [] OTHER -> {60, 300, 900, 3600, 21600, 86400}

\* ceil(delta / 2000)
Target(delta) == (delta + 1999) \div 2000

Least(S) == CHOOSE x \in S : \A y \in S : x <= y

Greatest(S) == CHOOSE x \in S : \A y \in S : y <= x

\* C10: when the period spec is empty or case-insensitively "auto", the
\* resolved period is the smallest candidate that is >= ceil((end - start
\* in seconds) / 2000), or the largest candidate if none qualifies, the
\* candidates chosen by the age of start: > 455 days {21600, 86400}; > 63
\* days {3600, 21600, 86400}; > 15 days {300, 900, 3600, 21600, 86400};
\* otherwise {60, 300, 900, 3600, 21600, 86400}.
C10_AutoPeriod ==
    (Resolved /\ req.query.Period \in AutoSpecs) =>
        LET fit == {c \in TierCandidates(req.timeSince) : c >= Target(req.deltaInSeconds)}
        IN  TheQuery.Period = IF fit = {} THEN Greatest(TierCandidates(req.timeSince))
                              ELSE Least(fit)

\* C10 witness: a range of 4000 s starting within the last 15 days, period
\* "auto", resolves to 60.
C10_FourThousandSecondsGivesSixty ==
    /\ Resolved
    /\ req.query.Period = <<"a", "u", "t", "o">>
    /\ req.deltaInSeconds = 4000
    /\ req.timeSince < 15 * 86400
    /\ TheQuery.Period = 60

\* the region values that stand for "no region chosen"
UnsetRegions == {"", defaultRegion}

\* C11: in every query returned by normalization, the region equals the
\* caller-supplied default region whenever the input region is empty or the
\* sentinel "default", and equals the input region otherwise; it is never
\* blank or the sentinel when the default region supplied is neither.
C11_RegionDefaulted ==
    Resolved =>
        /\ TheQuery.Region = IF req.query.Region \in UnsetRegions THEN req.defaultRegion
                             ELSE req.query.Region
        /\ req.defaultRegion \notin UnsetRegions => TheQuery.Region \notin UnsetRegions

\* C11 witness: a query description without a region, normalized with the
\* default region "eu-west-1", comes back with region "eu-west-1".
C11_AbsentRegionGetsDefault ==
    /\ Resolved
    /\ req.query.Region = ""
    /\ req.defaultRegion = "eu-west-1"
    /\ TheQuery.Region = "eu-west-1"

\* GetCSVBackendResponse has returned
CsvDone == pc = "csv_done"

\* the stage has been called
Ran(stage) == \E i \in 1..Len(calls) : calls[i].stage = stage

\* the stage has been called and returned an error
Failed(stage) == \E i \in 1..Len(calls) : calls[i].stage = stage /\ ~calls[i].ok

\* the stage has been called and returned no error
Succeeded(stage) == \E i \in 1..Len(calls) : calls[i].stage = stage /\ calls[i].ok

\* the text has a character that is not white space
NonBlank(text) == \E i \in 1..Len(text) : text[i] \notin {" ", "\t", "\n", "\r"}

FirstStages == <<"parse", "computed", "filter">>

\* C12: in every run of GetCSVBackendResponse the stages run in the order
\* parse, computed columns, row filter, and no stage runs after a stage
\* that failed; after the filter at most one of Summarizer and Reshaper
\* runs: once the function has returned with the filter passed, the
\* Summarizer has run iff the summarize expression is non-blank after
\* trimming white space, and the Reshaper has run only if the expression is
\* blank, the format is "timeseries" and the frame is long-shaped.
C12_StagesInOrder ==
    /\ Len(calls) <= Len(FirstStages) + 1
    /\ \A i \in 1..Len(calls) :
          /\ i <= Len(FirstStages) => calls[i].stage = FirstStages[i]
          /\ i > Len(FirstStages) => calls[i].stage \in {"summarize", "reshape"}
          /\ i < Len(calls) => calls[i].ok
    /\ (CsvDone /\ Succeeded("filter")) =>
          /\ Ran("summarize") <=> NonBlank(req.query.SummarizeExpression)
          /\ Ran("reshape") =>
                /\ ~NonBlank(req.query.SummarizeExpression)
                /\ req.query.Format = "timeseries"
                /\ TimeSeriesSchema(frame[1]) = TimeSeriesTypeLong
    /\ (CsvDone /\ ~Succeeded("filter")) => ~calls[Len(calls)].ok

\* C12 witness: a run with a summarize expression of blanks only, format
\* "timeseries" and a long frame after the filter has called parse,
\* computed columns, filter and the Reshaper, and not the Summarizer.
C12_BlankExpressionReshapes ==
    /\ CsvDone
    /\ req.query.SummarizeExpression = <<"\t", " ", "\n">>
    /\ Len(calls) = 4
    /\ calls[1].stage = "parse"
    /\ calls[2].stage = "computed"
    /\ calls[3].stage = "filter"
    /\ calls[4].stage = "reshape"

\* the stages whose failure makes the pipeline fail
FailingStages == {"parse", "computed", "filter", "summarize"}

\* the frame GetCSVBackendResponse returned is there and its metadata
\* carries the query and the text of the error of the last stage called
LabelledWithError(f) ==
    /\ f # None
    /\ f[1].Meta # None
    /\ f[1].Meta[1].Custom.Query = req.query
    /\ f[1].Meta[1].Custom.Error # <<>>
    /\ f[1].Meta[1].Custom.Error = calls[Len(calls)].msg

\* C13: whenever a stage of the framing pipeline fails (delimited parse,
\* computed columns, row filter or summarize), GetCSVBackendResponse returns
\* a non-nil error together with a non-nil frame whose metadata carries the
\* originating query and the error text.
C13_FailureReturnsLabelledFrame ==
    (CsvDone /\ \E stage \in FailingStages : Failed(stage)) =>
        /\ err # NoError
        /\ LabelledWithError(out.result)

\* no summarization is requested and parse, computed columns and filter
\* succeeded
ReshapeCase ==
    /\ CsvDone
    /\ Succeeded("filter")
    /\ ~NonBlank(req.query.SummarizeExpression)

\* C14: when no summarization is requested and the earlier stages
\* succeeded, GetCSVBackendResponse never returns an error because of the
\* reshape: if the frame is not long-shaped, the format is not "timeseries"
\* or the long-to-wide conversion fails, the frame produced by the filter
\* stage is returned unchanged with a nil error.
C14_ReshapeNeverFatal ==
    ReshapeCase =>
        /\ err = NoError
        /\ (\/ TimeSeriesSchema(frame[1]) # TimeSeriesTypeLong
            \/ req.query.Format # "timeseries"
            \/ Failed("reshape")) => out.result = frame

\* C14 witness: the conversion of a long frame fails and the frame of the
\* filter stage comes back with no error.
C14_FailedReshapeKeepsFrame ==
    /\ ReshapeCase
    /\ Failed("reshape")
    /\ TimeSeriesSchema(frame[1]) = TimeSeriesTypeLong
    /\ out.result = frame
    /\ err = NoError

\* BuildDeepLink has returned or panicked
LinkBuilt == out.op = "BuildDeepLink"

\* a Raw search query whose expression holds no SEARCH( call
MathQuery(q) ==
    /\ q.MetricQueryType = MetricQueryTypeSearch
    /\ q.MetricEditorMode = MetricEditorModeRaw
    /\ "SEARCH(" \notin Range(q.Expression)

\* the queries the console cannot show: math expressions and SQL
NoLinkQuery(q) == MathQuery(q) \/ q.MetricQueryType = MetricQueryTypeQuery

\* a search expression, written by the user or inferred from the builder
SearchQuery(q) ==
    /\ q.MetricQueryType = MetricQueryTypeSearch
    /\ \/ q.MetricEditorMode = MetricEditorModeRaw /\ "SEARCH(" \in Range(q.Expression)
       \/ IsBuilderSearch(q) /\ TableInferred(q)

\* the label an entry of the metric list carries for the query
LinkLabel(q) == IF out.dynamicLabelEnabled THEN q.Label ELSE <<>>

\* m is the single {expression, label?} entry of q
ExpressionEntry(m, q) ==
    /\ m.kind = "expression"
    /\ m.Expression = q.UsedExpression
    /\ m.Label = LinkLabel(q)

\* m is [namespace, metricName, then for each dimension its key and only
\* its first value, then {stat, period, label?, accountId?}]
MetricStatList(m, q) ==
    /\ m.kind = "metricStat"
    /\ m.head = <<q.Namespace, q.MetricName>>
    /\ Len(m.pairs) = Cardinality(DOMAIN q.Dimensions)
    /\ {m.pairs[i].key : i \in 1..Len(m.pairs)} = DOMAIN q.Dimensions
    /\ \A i \in 1..Len(m.pairs) : m.pairs[i].value = q.Dimensions[m.pairs[i].key][1]
    /\ m.meta.Stat = q.Statistic
    /\ m.meta.Period = q.Period
    /\ m.meta.Label = LinkLabel(q)
    /\ m.meta.AccountId = IF q.AccountId = None THEN "" ELSE q.AccountId[1]

\* r is a non-empty URL with the metric list q is to have
LinkFor(r, q) ==
    /\ r.kind = "ok"
    /\ r.link # None
    /\ IF SearchQuery(q) THEN ExpressionEntry(r.link[1].Metrics, q)
       ELSE MetricStatList(r.link[1].Metrics, q)

\* the region can stand in the host name of the console URL
HostRegion(region) == " " \notin Range(RegionChars(region))

\* C15 as stated: BuildDeepLink returns the empty link with no error
\* exactly for math-expression and SQL queries; for every other query it
\* returns a non-empty URL whose metric list is the single
\* {expression, label?} entry when the query is a search expression, and
\* otherwise [namespace, metricName, then for each dimension its key and
\* only its first value, then {stat, period, label?, accountId?}].
C15_LinkForEveryOtherQuery ==
    LinkBuilt =>
        /\ (out.result.kind = "ok" /\ out.result.link = None) <=> NoLinkQuery(TheQuery)
        /\ ~NoLinkQuery(TheQuery) => LinkFor(out.result, TheQuery)

\* C15 amended: BuildDeepLink returns the empty link with no error exactly
\* for math-expression and SQL queries; for every other query it returns,
\* when the query's region cannot stand in the host name of the console
\* URL, the empty link with an error, and otherwise a non-empty URL whose
\* metric list is as stated.
C15_LinkUnlessRegionUnparseable ==
    LinkBuilt =>
        /\ (out.result.kind = "ok" /\ out.result.link = None) <=> NoLinkQuery(TheQuery)
        /\ (~NoLinkQuery(TheQuery) /\ HostRegion(TheQuery.Region)) =>
               LinkFor(out.result, TheQuery)
        /\ (~NoLinkQuery(TheQuery) /\ ~HostRegion(TheQuery.Region)) =>
               (out.result.kind = "error" /\ out.result.link = None)

\* C15 witness: a metric-stat query with a two-valued dimension gets a link
\* whose list holds that dimension's key with the first of the two values.
C15_FirstValueOfTwo ==
    /\ LinkBuilt
    /\ out.result.link # None
    /\ out.result.link[1].Metrics.kind = "metricStat"
    /\ \E i \in 1..Len(out.result.link[1].Metrics.pairs) :
          /\ TheQuery.Dimensions[out.result.link[1].Metrics.pairs[i].key] = <<"y", "x">>
          /\ out.result.link[1].Metrics.pairs[i].value = "y"

=============================================================================
